---- MODULE Spec2Model ----
(***************************************************************************)
(* ECDSA engine of crypto/internal/crypto/ecdsa.go: the per-curve          *)
(* singletons guarded by sync.Once, deterministic key generation from a    *)
(* seed, raw encoding/decoding of keys, Sign and Verify.                   *)
(*                                                                         *)
(* The curves are scaled down: two prime-order Weierstrass curves whose    *)
(* order and field prime both need two bytes, so that every length rule    *)
(* of the code (Nlen, Plen, zero padding, truncation of the digest) is     *)
(* exercised on 8-bit bytes exactly as in the source.                      *)
(***************************************************************************)
EXTENDS Integers, Sequences, FiniteSets, TLC

VARIABLES
    instance,   \* p256Instance / secp256k1Instance: pointer or NilPtr
    onceDone,   \* sync.Once.done of p256Once / secp256k1Once
    onceMu,     \* sync.Once.m: the goroutine holding the mutex
    heap,       \* allocated ecdsaAlgo objects: pointer -> [curve, algo]
    built,      \* number of ecdsaAlgo objects constructed per algorithm
    pc,         \* position of each goroutine inside the constructor
    callAlg,    \* the constructor each goroutine is executing
    tmp,        \* the object a goroutine is constructing inside Do
    ret,        \* what each goroutine's last constructor call returned
    ncalls,     \* number of constructor calls each goroutine has started
    sk,         \* the private key in hand (PrKeyECDSA) or NoKey
    signed,     \* the last successful Sign call and its signature
    last        \* the last key operation: name, inputs and results

vars == <<instance, onceDone, onceMu, heap, built, pc, callAlg, tmp, ret,
          ncalls, sk, signed, last>>

onceVars == <<instance, onceDone, onceMu, heap, built, pc, callAlg, tmp,
              ret, ncalls>>

keyVars == <<sk, signed, last>>

\* the nil error, and the name of an absent value
Nil == "nil"

\* the nil pointer; objects on the heap are numbered from 1
NilPtr == 0

\* sync.Mutex unlocked; a locked mutex holds its goroutine's number
Unlocked == 0

\* the zero value of ecdsaAlgo
NoCurve == [name |-> Nil]
ZeroAlgo == [curve |-> NoCurve, algo |-> Nil]

\* ------------------------------------------------------------------------
\* Bounds of the model
\* ------------------------------------------------------------------------
NumThreads == 2
MaxCalls == 2
\* seeds encode the integers 0 .. MaxSeedVal and a few chosen ones
MaxSeedVal == 1
\* seeds are up to MaxSeedExtra bytes longer than the minimum
MaxSeedExtra == 1

Threads == 1 .. NumThreads

\* ------------------------------------------------------------------------
\* Signing algorithms and curves
\* ------------------------------------------------------------------------
ECDSAP256 == "ECDSA_P256"
ECDSASecp256k1 == "ECDSA_secp256k1"

Algos == {ECDSAP256, ECDSASecp256k1}

\* elliptic.P256(), scaled down: y^2 = x^3 - 3x + 1 over GF(281), order 263
P256 ==
    [name |-> "P-256", P |-> 281, N |-> 263, A |-> 278, B |-> 1,
     Gx |-> 1, Gy |-> 53]

\* btcec.S256(), scaled down: y^2 = x^3 + 7 over GF(349), order 313
S256 ==
    [name |-> "secp256k1", P |-> 349, N |-> 313, A |-> 0, B |-> 7,
     Gx |-> 2, Gy |-> 109]

Curves == {P256, S256}

CurveOf(algo) == IF algo = ECDSAP256 THEN P256 ELSE S256

\* ------------------------------------------------------------------------
\* The curve singletons: newECDSAP256 / newECDSASecp256k1 over sync.Once
\* ------------------------------------------------------------------------
OnceInit ==
    /\ instance = [a \in Algos |-> NilPtr]
    /\ onceDone = [a \in Algos |-> 0]
    /\ onceMu = [a \in Algos |-> Unlocked]
    /\ heap = << >>
    /\ built = [a \in Algos |-> 0]
    /\ pc = [t \in Threads |-> "idle"]
    /\ callAlg = [t \in Threads |-> Nil]
    /\ tmp = [t \in Threads |-> NilPtr]
    /\ ret = [t \in Threads |-> [alg |-> Nil, ptr |-> NilPtr, obj |-> ZeroAlgo]]
    /\ ncalls = [t \in Threads |-> 0]

\* a goroutine enters newECDSAP256() or newECDSASecp256k1()
CallNew(t, a) ==
    /\ pc[t] \in {"idle", "returned"}
    /\ ncalls[t] < MaxCalls
    /\ pc' = [pc EXCEPT ![t] = "fast"]
    /\ callAlg' = [callAlg EXCEPT ![t] = a]
    /\ ncalls' = [ncalls EXCEPT ![t] = @ + 1]
    /\ UNCHANGED <<instance, onceDone, onceMu, heap, built, tmp, ret>>

\* Once.Do: if atomic.LoadUint32(&o.done) == 0 { o.doSlow(f) }
OnceFastPathTaken(t) == onceDone[callAlg[t]] # 0

OnceFast(t) ==
    /\ pc[t] = "fast"
    /\ pc' = [pc EXCEPT ![t] = IF OnceFastPathTaken(t) THEN "return"
                                ELSE "lock"]
    /\ UNCHANGED <<instance, onceDone, onceMu, heap, built, callAlg, tmp,
                   ret, ncalls>>

\* doSlow: o.m.Lock()
OnceLock(t) ==
    /\ pc[t] = "lock"
    /\ onceMu[callAlg[t]] = Unlocked
    /\ onceMu' = [onceMu EXCEPT ![callAlg[t]] = t]
    /\ pc' = [pc EXCEPT ![t] = "slow"]
    /\ UNCHANGED <<instance, onceDone, heap, built, callAlg, tmp, ret,
                   ncalls>>

\* doSlow without the second look at o.done under the mutex
OnceSlowNoRecheck(t) ==
    /\ pc[t] = "slow"
    /\ pc' = [pc EXCEPT ![t] = "alloc"]
    /\ UNCHANGED <<instance, onceDone, onceMu, heap, built, callAlg, tmp,
                   ret, ncalls>>

\* doSlow: if o.done == 0 { defer atomic.StoreUint32(&o.done, 1); f() }
OnceSlow(t) ==
    /\ pc[t] = "slow"
    /\ pc' = [pc EXCEPT ![t] = IF onceDone[callAlg[t]] = 0 THEN "alloc"
                                ELSE "unlock"]
    /\ UNCHANGED <<instance, onceDone, onceMu, heap, built, callAlg, tmp,
                   ret, ncalls>>

\* f(): the composite literal ecdsaAlgo{...} is allocated ...
Alloc(t) ==
    /\ pc[t] = "alloc"
    /\ LET p == Len(heap) + 1 IN
         /\ heap' = Append(heap, ZeroAlgo)
         /\ tmp' = [tmp EXCEPT ![t] = p]
    /\ built' = [built EXCEPT ![callAlg[t]] = @ + 1]
    /\ pc' = [pc EXCEPT ![t] = "fill"]
    /\ UNCHANGED <<instance, onceDone, onceMu, callAlg, ret, ncalls>>

\* ... its fields curve and algo are set ...
Fill(t) ==
    /\ pc[t] = "fill"
    /\ heap' = [heap EXCEPT ![tmp[t]] =
                   [curve |-> CurveOf(callAlg[t]), algo |-> callAlg[t]]]
    /\ pc' = [pc EXCEPT ![t] = "publish"]
    /\ UNCHANGED <<instance, onceDone, onceMu, built, callAlg, tmp, ret,
                   ncalls>>

\* ... and its address is stored in p256Instance / secp256k1Instance
Publish(t) ==
    /\ pc[t] = "publish"
    /\ instance' = [instance EXCEPT ![callAlg[t]] = tmp[t]]
    /\ tmp' = [tmp EXCEPT ![t] = NilPtr]
    /\ pc' = [pc EXCEPT ![t] = "store"]
    /\ UNCHANGED <<onceDone, onceMu, heap, built, callAlg, ret, ncalls>>

\* deferred atomic.StoreUint32(&o.done, 1)
OnceStore(t) ==
    /\ pc[t] = "store"
    /\ onceDone' = [onceDone EXCEPT ![callAlg[t]] = 1]
    /\ pc' = [pc EXCEPT ![t] = "unlock"]
    /\ UNCHANGED <<instance, onceMu, heap, built, callAlg, tmp, ret,
                   ncalls>>

\* deferred o.m.Unlock()
OnceUnlock(t) ==
    /\ pc[t] = "unlock"
    /\ onceMu' = [onceMu EXCEPT ![callAlg[t]] = Unlocked]
    /\ pc' = [pc EXCEPT ![t] = "return"]
    /\ UNCHANGED <<instance, onceDone, heap, built, callAlg, tmp, ret,
                   ncalls>>

\* return p256Instance / return secp256k1Instance; obj is what the caller
\* reads through the returned pointer at that moment
Return(t) ==
    /\ pc[t] = "return"
    /\ LET p == instance[callAlg[t]] IN
         ret' = [ret EXCEPT ![t] =
                    [alg |-> callAlg[t], ptr |-> p,
                     obj |-> IF p = NilPtr THEN ZeroAlgo ELSE heap[p]]]
    /\ pc' = [pc EXCEPT ![t] = "returned"]
    /\ UNCHANGED <<instance, onceDone, onceMu, heap, built, callAlg, tmp,
                   ncalls>>

\* ------------------------------------------------------------------------
\* Bytes and big integers (math/big)
\* ------------------------------------------------------------------------
\* big.Int.SetBytes: big-endian bytes to an unsigned integer
RECURSIVE SetBytes(_)
SetBytes(b) ==
    IF b = << >> THEN 0
    ELSE SetBytes(SubSeq(b, 1, Len(b) - 1)) * 256 + b[Len(b)]

\* new(big.Int).SetBytes(b) followed by Mod(m): a seed's value is beyond
\* the integers of the model, so it is reduced byte by byte, as a long
\* division by m does
RECURSIVE SetBytesMod(_, _)
SetBytesMod(b, m) ==
    IF b = << >> THEN 0
    ELSE (SetBytesMod(SubSeq(b, 1, Len(b) - 1), m) * 256 + b[Len(b)]) % m

\* big.Int.Bytes: minimal big-endian bytes, empty for zero
RECURSIVE Bytes(_)
Bytes(x) == IF x = 0 THEN << >> ELSE Append(Bytes(x \div 256), x % 256)

\* big.Int.BitLen
RECURSIVE BitLen(_)
BitLen(x) == IF x = 0 THEN 0 ELSE 1 + BitLen(x \div 2)

\* make([]byte, n)
Zeros(n) == [i \in 1 .. n |-> 0]

\* copy(dst[off:], src)
CopyAt(dst, off, src) ==
    [i \in 1 .. Len(dst) |->
        IF i > off /\ i <= off + Len(src) THEN src[i - off] ELSE dst[i]]

\* b[lo:hi] of a slice whose capacity is its length (0-based, hi exclusive)
Slice(b, lo, hi) == SubSeq(b, lo + 1, hi)

bitsToBytes(bits) == (bits + 7) \div 8

\* ------------------------------------------------------------------------
\* Curve arithmetic (crypto/elliptic, btcec): affine points, with (0, 0)
\* standing for the point at infinity as in the Go libraries
\* ------------------------------------------------------------------------
RECURSIVE ModExp(_, _, _)
ModExp(b, e, m) ==
    IF e = 0 THEN 1 % m
    ELSE LET h == ModExp(b, e \div 2, m)
             q == (h * h) % m
         IN  IF e % 2 = 1 THEN (q * b) % m ELSE q

\* inverse modulo a prime m (Fermat); 0 for 0, as big.Int.ModInverse
\* leaves no inverse
ModInverse(a, m) == ModExp(a % m, m - 2, m)

Infinity == [x |-> 0, y |-> 0]

IsOnCurve(c, p) ==
    /\ p.x < c.P
    /\ p.y < c.P
    /\ (p.y * p.y) % c.P = (((p.x * p.x) % c.P) * p.x + c.A * p.x + c.B) % c.P

Double(c, p) ==
    IF p = Infinity \/ p.y % c.P = 0 THEN Infinity
    ELSE LET x1 == p.x % c.P
             y1 == p.y % c.P
             l == ((((3 * x1 * x1) % c.P) + c.A) * ModInverse(2 * y1, c.P)) % c.P
             x3 == (l * l + 2 * (c.P - x1)) % c.P
             y3 == (l * (x1 + c.P - x3) + (c.P - y1)) % c.P
         IN  [x |-> x3, y |-> y3]

Add(c, p, q) ==
    IF p = Infinity THEN q
    ELSE IF q = Infinity THEN p
    ELSE LET x1 == p.x % c.P
             y1 == p.y % c.P
             x2 == q.x % c.P
             y2 == q.y % c.P
         IN  IF x1 = x2
             THEN IF y1 = y2 THEN Double(c, p) ELSE Infinity
             ELSE LET l == ((y2 + c.P - y1) * ModInverse(x2 + c.P - x1, c.P)) % c.P
                      x3 == (l * l + (c.P - x1) + (c.P - x2)) % c.P
                      y3 == (l * (x1 + c.P - x3) + (c.P - y1)) % c.P
                  IN  [x |-> x3, y |-> y3]

\* Curve.ScalarMult on the integer value of the scalar bytes
RECURSIVE ScalarMultInt(_, _, _)
ScalarMultInt(c, p, k) ==
    IF k = 0 THEN Infinity
    ELSE LET h == ScalarMultInt(c, p, k \div 2)
             d == Double(c, h)
         IN  IF k % 2 = 1 THEN Add(c, d, p) ELSE d

ScalarMult(c, p, k) == ScalarMultInt(c, p, SetBytes(k))

ScalarBaseMult(c, k) == ScalarMult(c, [x |-> c.Gx, y |-> c.Gy], k)

\* ------------------------------------------------------------------------
\* The Hasher capability: a deterministic digest of fixed length per
\* variant (2 bytes for the 256-bit variant, 3 for the 384-bit one, scaled
\* like the curves)
\* ------------------------------------------------------------------------
SHA2_256 == "SHA2_256"
SHA3_384 == "SHA3_384"

Hashers == {SHA2_256, SHA3_384}

RECURSIVE Mix(_, _)
Mix(data, acc) ==
    IF data = << >> THEN acc
    ELSE Mix(Tail(data), (acc * 131 + Head(data) + 7) % 65521)

ComputeHash(alg, data) ==
    LET m == Mix(data, IF alg = SHA2_256 THEN 40503 ELSE 12345)
    IN  IF alg = SHA2_256
        THEN <<m \div 256, m % 256>>
        ELSE <<m % 256, (m \div 256) % 256, (m * 3) % 256>>

\* ------------------------------------------------------------------------
\* crypto/ecdsa as the code calls it
\* ------------------------------------------------------------------------
\* hashToInt: the leading bytes of the digest, cut to the order's bit length
hashToInt(h, c) ==
    LET orderBits == BitLen(c.N)
        orderBytes == (orderBits + 7) \div 8
        hh == IF Len(h) > orderBytes THEN Slice(h, 0, orderBytes) ELSE h
        excess == Len(hh) * 8 - orderBits
    IN  IF excess > 0 THEN SetBytes(hh) \div (2 ^ excess) ELSE SetBytes(hh)

\* one round of ecdsa.Sign's loop with the nonce k drawn from rand:
\* r = (k*G).x mod N, s = k^-1 (e + D r) mod N
\* (D r + e is reduced before the product; the result mod N is the same)
goecdsaSignWith(priv, h, k) ==
    LET c == priv.PublicKey.Curve
        kInv == ModInverse(k, c.N)
        r == ScalarBaseMult(c, Bytes(k)).x % c.N
        e == hashToInt(h, c)
        s == (((priv.D * r + e) % c.N) * kInv) % c.N
    IN  [r |-> r, s |-> s]

\* ecdsa.Sign draws nonces from [1, N-1] until r # 0 and s # 0: k is a
\* nonce it can return with
goecdsaSignAccepts(priv, h, k) ==
    LET rs == goecdsaSignWith(priv, h, k) IN rs.r # 0 /\ rs.s # 0

\* ecdsa.Verify without the test of r and s against the order
goecdsaVerifyNoUpperBound(pub, h, r, s) ==
    LET c == pub.Curve IN
    IF r <= 0 \/ s <= 0 THEN FALSE
    ELSE LET e == hashToInt(h, c)
             w == ModInverse(s, c.N)
             u1 == (e * w) % c.N
             u2 == (r * w) % c.N
             p1 == ScalarBaseMult(c, Bytes(u1))
             p2 == ScalarMult(c, [x |-> pub.X, y |-> pub.Y], Bytes(u2))
             q == Add(c, p1, p2)
         IN  IF q = Infinity THEN FALSE ELSE q.x % c.N = r

\* ecdsa.Verify
goecdsaVerify(pub, h, r, s) ==
    LET c == pub.Curve IN
    IF r <= 0 \/ s <= 0 THEN FALSE
    ELSE IF r >= c.N \/ s >= c.N THEN FALSE
    ELSE LET e == hashToInt(h, c)
             w == ModInverse(s, c.N)
             u1 == (e * w) % c.N
             u2 == (r * w) % c.N
             p1 == ScalarBaseMult(c, Bytes(u1))
             p2 == ScalarMult(c, [x |-> pub.X, y |-> pub.Y], Bytes(u2))
             q == Add(c, p1, p2)
         IN  IF q = Infinity THEN FALSE ELSE q.x % c.N = r

\* ------------------------------------------------------------------------
\* Keys
\* ------------------------------------------------------------------------
\* securityBits, the constant behind "use extra 128 bits"
securityBits == 128

NoKey == [type |-> Nil]

\* a key of another implementation of the PrivateKey / PublicKey interface
ForeignKey == [type |-> "other"]

PrKeyECDSA(a, priv) == [type |-> "PrKeyECDSA", alg |-> a, goPrKey |-> priv]

PubKeyECDSA(a, pub) == [type |-> "PubKeyECDSA", alg |-> a, goPubKey |-> pub]

\* a.curve.Params().N bit length in bytes, for the ecdsaAlgo at pointer a
NlenOf(a) == bitsToBytes(BitLen(heap[a].curve.N))

PlenOf(a) == bitsToBytes(BitLen(heap[a].curve.P))

\* the reduction with the modulus N instead of N - 1
goecdsaGenerateKeyModN(c, seed) ==
    LET k == SetBytesMod(seed, c.N) + 1
        q == ScalarBaseMult(c, Bytes(k))
    IN  [D |-> k, PublicKey |-> [Curve |-> c, X |-> q.x, Y |-> q.y]]

goecdsaGenerateKey(c, seed) ==
    LET n == c.N - 1
        k == SetBytesMod(seed, n) + 1
        q == ScalarBaseMult(c, Bytes(k))
    IN  [D |-> k, PublicKey |-> [Curve |-> c, X |-> q.x, Y |-> q.y]]

\* the length test with <= in place of <
generatePrivateKeyStrict(a, seed) ==
    LET minSeedLen == NlenOf(a) + (securityBits \div 8) IN
    IF Len(seed) <= minSeedLen
    THEN [err |-> "seed should be at least minSeedLen bytes", key |-> NoKey]
    ELSE [err |-> Nil,
          key |-> PrKeyECDSA(a, goecdsaGenerateKey(heap[a].curve, seed))]

generatePrivateKey(a, seed) ==
    LET Nlen == NlenOf(a)
        minSeedLen == Nlen + (securityBits \div 8)
    IN  IF Len(seed) < minSeedLen
        THEN [err |-> "seed should be at least minSeedLen bytes",
              key |-> NoKey]
        ELSE [err |-> Nil,
              key |-> PrKeyECDSA(a, goecdsaGenerateKey(heap[a].curve, seed))]

\* the length test that only rejects short input
rawDecodePrivateKeyAtLeast(a, der) ==
    IF Len(der) < NlenOf(a)
    THEN [err |-> "raw private key is not valid", key |-> NoKey]
    ELSE LET q == ScalarBaseMult(heap[a].curve, der)
         IN  [err |-> Nil,
              key |-> PrKeyECDSA(a,
                         [D |-> SetBytes(der),
                          PublicKey |-> [Curve |-> heap[a].curve,
                                         X |-> q.x, Y |-> q.y]])]

rawDecodePrivateKey(a, der) ==
    LET Nlen == NlenOf(a) IN
    IF Len(der) # Nlen
    THEN [err |-> "raw private key is not valid", key |-> NoKey]
    ELSE LET d == SetBytes(der)
             q == ScalarBaseMult(heap[a].curve, der)
         IN  [err |-> Nil,
              key |-> PrKeyECDSA(a,
                         [D |-> d,
                          PublicKey |-> [Curve |-> heap[a].curve,
                                         X |-> q.x, Y |-> q.y]])]

decodePrivateKey(a, der) == rawDecodePrivateKey(a, der)

rawDecodePublicKey(a, der) ==
    LET Plen == PlenOf(a) IN
    IF Len(der) # 2 * Plen
    THEN [err |-> "raw public key is not valid", key |-> NoKey]
    ELSE LET x == SetBytes(Slice(der, 0, Plen))
             y == SetBytes(Slice(der, Plen, Len(der)))
         IN  [err |-> Nil,
              key |-> PubKeyECDSA(a, [Curve |-> heap[a].curve,
                                      X |-> x, Y |-> y])]

decodePublicKey(a, der) == rawDecodePublicKey(a, der)

\* PrKeyECDSA.PublicKey
PublicKey(k) == PubKeyECDSA(k.alg, k.goPrKey.PublicKey)

\* PrKeyECDSA.rawEncode without the offset that pads on the left
PrKeyRawEncodeNoPad(k) ==
    CopyAt(Zeros(NlenOf(k.alg)), 0, Bytes(k.goPrKey.D))

\* PrKeyECDSA.rawEncode (D never needs more than Nlen bytes: it comes from
\* Nlen bytes or is below N)
PrKeyRawEncode(k) ==
    LET skBytes == Bytes(k.goPrKey.D)
        Nlen == NlenOf(k.alg)
    IN  CopyAt(Zeros(Nlen), Nlen - Len(skBytes), skBytes)

PrKeyEncode(k) == PrKeyRawEncode(k)

\* PubKeyECDSA.rawEncode
PubKeyRawEncode(k) ==
    LET xBytes == Bytes(k.goPubKey.X)
        yBytes == Bytes(k.goPubKey.Y)
        Plen == PlenOf(k.alg)
    IN  CopyAt(CopyAt(Zeros(2 * Plen), Plen - Len(xBytes), xBytes),
               2 * Plen - Len(yBytes), yBytes)

PubKeyEncode(k) == PubKeyRawEncode(k)

\* PrKeyECDSA.Equals without the check of the curve
PrKeyEqualsNoCurve(k, other) ==
    IF other.type # "PrKeyECDSA" THEN FALSE
    ELSE k.goPrKey.D = other.goPrKey.D

\* PrKeyECDSA.Equals
PrKeyEquals(k, other) ==
    IF other.type # "PrKeyECDSA" THEN FALSE
    ELSE IF heap[k.alg].curve # heap[other.alg].curve THEN FALSE
    ELSE k.goPrKey.D = other.goPrKey.D

\* PubKeyECDSA.Equals
PubKeyEquals(k, other) ==
    IF other.type # "PubKeyECDSA" THEN FALSE
    ELSE IF heap[k.alg].curve # heap[other.alg].curve THEN FALSE
    ELSE /\ k.goPubKey.X = other.goPubKey.X
         /\ k.goPubKey.Y = other.goPubKey.Y

\* ------------------------------------------------------------------------
\* Sign and Verify
\* ------------------------------------------------------------------------
\* outcome of a call: panic (the call crashed), ok (the boolean result),
\* err (the error result, Nil if none), sig (the signature result)
Outcome(panic, ok, err, sig) ==
    [panic |-> panic, ok |-> ok, err |-> err, sig |-> sig]

\* signHash with r and s copied to the front of their halves
signHashNoPad(k, h, rnd) ==
    IF rnd.fail
    THEN Outcome(FALSE, FALSE, "ECDSA Sign has failed", << >>)
    ELSE LET rs == goecdsaSignWith(k.goPrKey, h, rnd.k)
             Nlen == NlenOf(k.alg)
         IN  Outcome(FALSE, FALSE, Nil,
                     CopyAt(CopyAt(Zeros(2 * Nlen), 0, Bytes(rs.r)),
                            Nlen, Bytes(rs.s)))

\* signHash; rnd is what rand.Reader gives: a failure, or the nonce k that
\* ecdsa.Sign ends up using
signHash(k, h, rnd) ==
    IF rnd.fail
    THEN Outcome(FALSE, FALSE, "ECDSA Sign has failed", << >>)
    ELSE LET rs == goecdsaSignWith(k.goPrKey, h, rnd.k)
             rBytes == Bytes(rs.r)
             sBytes == Bytes(rs.s)
             Nlen == NlenOf(k.alg)
             signature == Zeros(2 * Nlen)
         IN  Outcome(FALSE, FALSE, Nil,
                     CopyAt(CopyAt(signature, Nlen - Len(rBytes), rBytes),
                            2 * Nlen - Len(sBytes), sBytes))

Sign(k, data, alg, rnd) ==
    IF alg = Nil
    THEN Outcome(FALSE, FALSE, "Sign requires a Hasher", << >>)
    ELSE signHash(k, ComputeHash(alg, data), rnd)

\* verifyHash: sig[:Nlen] and sig[Nlen:] panic when sig is shorter than Nlen
\* (sig[:Nlen] may reach into spare capacity, sig[Nlen:] may not)
verifyHash(k, sig, h) ==
    LET Nlen == NlenOf(k.alg) IN
    IF Len(sig) < Nlen
    THEN Outcome(TRUE, FALSE, Nil, sig)
    ELSE LET r == SetBytes(Slice(sig, 0, Nlen))
             s == SetBytes(Slice(sig, Nlen, Len(sig)))
         IN  Outcome(FALSE, goecdsaVerify(k.goPubKey, h, r, s), Nil, sig)

Verify(k, sig, data, alg) ==
    IF alg = Nil
    THEN Outcome(FALSE, FALSE, "Verify requires a Hasher", sig)
    ELSE verifyHash(k, sig, ComputeHash(alg, data))

\* ------------------------------------------------------------------------
\* The inputs the operations are called with
\* ------------------------------------------------------------------------
\* the integer v as len big-endian bytes
Encoded(v, len) == CopyAt(Zeros(len), len - Len(Bytes(v)), Bytes(v))

\* seed values with zero bytes in front: small ones, the ones around each
\* curve's N - 1, and one above both orders
SeedVals ==
    (0 .. MaxSeedVal) \cup
    UNION {{c.N - 2, c.N - 1} : c \in Curves} \cup {65535}

MinSeedLen == bitsToBytes(BitLen(P256.N)) + (securityBits \div 8)

SeedLens ==
    {0, bitsToBytes(BitLen(P256.N)), MinSeedLen - 1} \cup
    (MinSeedLen .. MinSeedLen + MaxSeedExtra)

\* and seeds of one repeated byte
Seeds ==
    {Encoded(v, l) : <<v, l>> \in
        {vl \in SeedVals \X SeedLens : Len(Bytes(vl[1])) <= vl[2]}}
    \cup {[i \in 1 .. l |-> b] : l \in SeedLens, b \in {1, 255}}

\* raw private keys: wrong lengths, zero, one, N - 1, N and above
DerInputs ==
    {<< >>, <<1>>, <<0, 0, 1>>, <<1, 2, 3>>, <<0, 0>>, <<0, 1>>,
     <<255, 255>>} \cup
    UNION {{Encoded(c.N - 1, 2), Encoded(c.N, 2)} : c \in Curves}

\* raw public keys: wrong lengths, each generator, a point on no curve,
\* the point at infinity, and coordinates above the field prime
PubDerInputs ==
    {<< >>, <<0, 1, 0>>, <<0, 1, 0, 53, 0>>, <<0, 1, 0, 53>>,
     <<0, 2, 0, 109>>, <<0, 1, 0, 54>>, <<0, 0, 0, 0>>, <<255, 255, 0, 1>>}

\* signatures of every length around 2 * Nlen, with r or s zero or too big
SigInputs ==
    {<< >>, <<1>>, <<0, 5>>, <<0, 5, 9>>, <<0, 5, 0, 9>>, <<0, 0, 0, 9>>,
     <<0, 5, 0, 0>>, <<0, 5, 255, 255>>, <<255, 255, 0, 9>>,
     <<0, 5, 0, 0, 9>>}

Msgs == {<<104, 105>>, <<0>>}

\* sig with a zero byte put in front of its second half
Stretch(sig, Nlen) ==
    SubSeq(sig, 1, Nlen) \o <<0>> \o SubSeq(sig, Nlen + 1, Len(sig))

\* ------------------------------------------------------------------------
\* Key operations of one client that holds both curve singletons
\* ------------------------------------------------------------------------
NoCall == [op |-> "none"]

NoSigned == [made |-> FALSE]

KeysIdle ==
    /\ sk = NoKey
    /\ signed = NoSigned
    /\ last = NoCall

\* the private keys the operations above produce from the inputs
AllPrKeys ==
    {generatePrivateKey(instance[g], seed).key : g \in Algos, seed \in Seeds}
    \cup {decodePrivateKey(instance[g], der).key :
             g \in Algos, der \in DerInputs}
    \cup {ForeignKey}

AllPubKeys ==
    {PublicKey(k) : k \in {q \in AllPrKeys : q.type = "PrKeyECDSA"}}
    \cup {decodePublicKey(instance[g], der).key :
             g \in Algos, der \in PubDerInputs}
    \cup {ForeignKey}

\* the public keys Verify is called with on given bytes
VerifyKeys ==
    {decodePublicKey(instance[g], der).key :
        g \in Algos, der \in {<<0, 1, 0, 53>>, <<0, 2, 0, 109>>}}

\* the nonces rand.Reader can lead ecdsa.Sign to, or its failure
Rnds ==
    {[fail |-> TRUE, k |-> 0]} \cup
    {[fail |-> FALSE, k |-> k] : k \in 1 .. (S256.N - 1)}

\* sig with the order n added to its second half s: the same s modulo n,
\* still in Nlen bytes
Lifted(sig, Nlen, n) ==
    SubSeq(sig, 1, Nlen) \o
    Encoded(SetBytes(SubSeq(sig, Nlen + 1, Len(sig))) + n, Nlen)

\* the signature the client made, as it is, stretched and lifted
HeldSignatures ==
    IF signed.made
    THEN {signed.sig, Stretch(signed.sig, NlenOf(sk.alg)),
          Lifted(signed.sig, NlenOf(sk.alg), heap[sk.alg].curve.N)}
    ELSE {}

\* newECDSA...().generatePrivateKey(seed)
GeneratePrivateKeyCall ==
    /\ last.op = "none"
    /\ \E algo \in Algos, seed \in Seeds :
         LET res == generatePrivateKey(instance[algo], seed) IN
           /\ sk' = res.key
           /\ last' = [op |-> "generatePrivateKey", algo |-> algo,
                       seed |-> seed, err |-> res.err, key |-> res.key]
    /\ UNCHANGED <<signed, onceVars>>

\* newECDSA...().decodePrivateKey(der) of given bytes; the client keeps the
\* key
DecodePrivateKeyCall ==
    /\ last.op = "none"
    /\ \E algo \in Algos, der \in DerInputs :
         LET res == decodePrivateKey(instance[algo], der) IN
           /\ sk' = res.key
           /\ last' = [op |-> "decodePrivateKey", algo |-> algo,
                       der |-> der, err |-> res.err, key |-> res.key,
                       of |-> NoKey]
    /\ UNCHANGED <<signed, onceVars>>

\* newECDSA...().decodePrivateKey(sk.Encode()) of the key just generated,
\* by either curve's algorithm
DecodeEncodedCall ==
    /\ last.op = "generatePrivateKey"
    /\ sk.type = "PrKeyECDSA"
    /\ \E algo \in Algos :
         LET der == PrKeyEncode(sk)
             res == decodePrivateKey(instance[algo], der)
         IN  last' = [op |-> "decodePrivateKey", algo |-> algo, der |-> der,
                      err |-> res.err, key |-> res.key, of |-> sk]
    /\ UNCHANGED <<sk, signed, onceVars>>

\* newECDSA...().decodePublicKey(der)
DecodePublicKeyCall ==
    /\ last.op = "none"
    /\ \E algo \in Algos, der \in PubDerInputs :
         LET res == decodePublicKey(instance[algo], der) IN
           last' = [op |-> "decodePublicKey", algo |-> algo, der |-> der,
                    err |-> res.err, key |-> res.key]
    /\ UNCHANGED <<sk, signed, onceVars>>

\* sk.Sign(data, alg) with the key the client obtained
SignCall ==
    /\ sk.type = "PrKeyECDSA"
    /\ ~signed.made
    /\ \/ last.op = "generatePrivateKey"
       \/ last.op = "decodePrivateKey" /\ last.of = NoKey
    /\ \E data \in Msgs, alg \in Hashers \cup {Nil}, rnd \in Rnds :
         /\ rnd.k < heap[sk.alg].curve.N
         /\ alg # Nil /\ ~rnd.fail =>
               goecdsaSignAccepts(sk.goPrKey, ComputeHash(alg, data), rnd.k)
         /\ last' = [op |-> "Sign", data |-> data, alg |-> alg,
                     out |-> Sign(sk, data, alg, rnd)]
         /\ signed' = IF last'.out.err = Nil
                       THEN [made |-> TRUE, data |-> data, alg |-> alg,
                             sig |-> last'.out.sig]
                       ELSE signed
    /\ UNCHANGED <<sk, onceVars>>

\* pk.Verify(sig, data, alg) of the signature just made, as it is or
\* stretched, under the signer's public key and hasher
VerifySignedCall ==
    /\ last.op = "Sign"
    /\ signed.made
    /\ \E sig \in HeldSignatures, data \in Msgs :
         last' = [op |-> "Verify", pk |-> PublicKey(sk), sig |-> sig,
                  data |-> data, alg |-> signed.alg,
                  out |-> Verify(PublicKey(sk), sig, data, signed.alg)]
    /\ UNCHANGED <<sk, signed, onceVars>>

\* pk.Verify(sig, data, alg) of given bytes
VerifyCall ==
    /\ last.op = "none"
    /\ \E pk \in VerifyKeys, sig \in SigInputs, data \in Msgs,
          alg \in Hashers \cup {Nil} :
         last' = [op |-> "Verify", pk |-> pk, sig |-> sig, data |-> data,
                  alg |-> alg, out |-> Verify(pk, sig, data, alg)]
    /\ UNCHANGED <<sk, signed, onceVars>>

\* k.Equals(other) on private keys
PrKeyEqualsCall ==
    /\ last.op = "none"
    /\ \E k \in AllPrKeys, other \in AllPrKeys :
         /\ k.type = "PrKeyECDSA"
         /\ last' = [op |-> "PrKeyEquals", k |-> k, other |-> other,
                     ok |-> PrKeyEquals(k, other)]
    /\ UNCHANGED <<sk, signed, onceVars>>

\* k.Equals(other) on public keys
PubKeyEqualsCall ==
    /\ last.op = "none"
    /\ \E k \in AllPubKeys, other \in AllPubKeys :
         /\ k.type = "PubKeyECDSA"
         /\ last' = [op |-> "PubKeyEquals", k |-> k, other |-> other,
                     ok |-> PubKeyEquals(k, other)]
    /\ UNCHANGED <<sk, signed, onceVars>>

\* ------------------------------------------------------------------------
\* Specifications
\* ------------------------------------------------------------------------
\* the state after one goroutine has called both constructors
Constructed ==
    /\ instance = [a \in Algos |-> IF a = ECDSAP256 THEN 1 ELSE 2]
    /\ onceDone = [a \in Algos |-> 1]
    /\ onceMu = [a \in Algos |-> Unlocked]
    /\ heap = <<[curve |-> P256, algo |-> ECDSAP256],
                [curve |-> S256, algo |-> ECDSASecp256k1]>>
    /\ built = [a \in Algos |-> 1]
    /\ pc = [t \in Threads |-> IF t = 1 THEN "returned" ELSE "idle"]
    /\ callAlg = [t \in Threads |-> IF t = 1 THEN ECDSASecp256k1 ELSE Nil]
    /\ tmp = [t \in Threads |-> NilPtr]
    /\ ret = [t \in Threads |->
                IF t = 1
                THEN [alg |-> ECDSASecp256k1, ptr |-> 2,
                      obj |-> [curve |-> S256, algo |-> ECDSASecp256k1]]
                ELSE [alg |-> Nil, ptr |-> NilPtr, obj |-> ZeroAlgo]]
    /\ ncalls = [t \in Threads |-> IF t = 1 THEN 2 ELSE 0]

Init == Constructed /\ KeysIdle

Next ==
    \/ GeneratePrivateKeyCall
    \/ DecodePrivateKeyCall
    \/ DecodeEncodedCall
    \/ DecodePublicKeyCall
    \/ SignCall
    \/ VerifySignedCall
    \/ VerifyCall
    \/ PrKeyEqualsCall
    \/ PubKeyEqualsCall

Spec == Init /\ [][Next]_vars

InitOnce == OnceInit /\ KeysIdle

NextOnce ==
    \E t \in Threads :
        \/ \E a \in Algos : CallNew(t, a)
        \/ OnceFast(t)
        \/ OnceLock(t)
        \/ OnceSlow(t)
        \/ Alloc(t)
        \/ Fill(t)
        \/ Publish(t)
        \/ OnceStore(t)
        \/ OnceUnlock(t)
        \/ Return(t)

OnceStep == NextOnce /\ UNCHANGED keyVars

SpecOnce == InitOnce /\ [][OnceStep]_vars

\* ------------------------------------------------------------------------
\* Notions the properties are stated with
\* ------------------------------------------------------------------------
\* the value of a few bytes read as a big-endian unsigned integer
RECURSIVE BigEndianValue(_)
BigEndianValue(b) ==
    IF b = << >> THEN 0
    ELSE IF Head(b) = 0 THEN BigEndianValue(Tail(b))
    ELSE Head(b) * (256 ^ (Len(b) - 1)) + BigEndianValue(Tail(b))

\* the big-endian value of any bytes, modulo m: each byte times its power
\* of 256, summed modulo m
RECURSIVE BigEndianMod(_, _)
BigEndianMod(b, m) ==
    IF b = << >> THEN 0
    ELSE (Head(b) * ModExp(256 % m, Len(b) - 1, m)
            + BigEndianMod(Tail(b), m)) % m

\* the number of bytes needed to write x
ByteLength(x) == CHOOSE n \in 0 .. 4 : x < 256 ^ n /\ (n > 0 => x >= 256 ^ (n - 1))

\* d times the generator, as the sum of d copies of it
RECURSIVE Multiple(_, _)
Multiple(c, d) ==
    IF d = 0 THEN Infinity
    ELSE IF d = 1 THEN [x |-> c.Gx, y |-> c.Gy]
    ELSE Add(c, Multiple(c, d \div 2), Multiple(c, d - (d \div 2)))

\* the curve of the algorithm a key belongs to
AlgoOfKey(k) == heap[k.alg].algo

\* ------------------------------------------------------------------------
\* C1
\* ------------------------------------------------------------------------
C1_State ==
    /\ \A a \in Algos : built[a] <= 1
    /\ \A t \in Threads :
         pc[t] = "returned" =>
           /\ ret[t].ptr # NilPtr
           /\ ret[t].ptr = instance[ret[t].alg]
           /\ built[ret[t].alg] = 1
           /\ ret[t].obj = [curve |-> CurveOf(ret[t].alg),
                            algo |-> ret[t].alg]
    /\ \A t, u \in Threads :
         pc[t] = "returned" /\ pc[u] = "returned" /\ ret[t].alg = ret[u].alg
           => ret[t].ptr = ret[u].ptr

C1_Kept ==
    \A a \in Algos : instance[a] # NilPtr => instance'[a] = instance[a]

\* C1: under any interleaving of concurrent constructor calls, each
\* algorithm's instance is constructed once, every caller that has returned
\* got that same, fully initialised instance, and an instance once stored
\* is never replaced.
C1_SingletonOnce == [](C1_State) /\ [][C1_Kept]_vars

\* two goroutines raced for the same first construction: one has returned
\* the instance, the other passed the fast check before it was done and
\* now finds it done under the mutex
C1_Witness ==
    \E t, u \in Threads :
        /\ t # u
        /\ pc[t] = "returned" /\ ncalls[t] = 1
        /\ pc[u] = "slow" /\ ncalls[u] = 1
        /\ callAlg[u] = ret[t].alg
        /\ onceDone[callAlg[u]] = 1

\* ------------------------------------------------------------------------
\* C2
\* ------------------------------------------------------------------------
\* C2: the scalar of a generated key is (k mod (n-1)) + 1 for the seed's
\* big-endian value k, it lies in [1, n-1], and the public point is the
\* scalar times the generator.
C2_ScalarFromSeed ==
    last.op = "generatePrivateKey" /\ last.err = Nil =>
        LET c == CurveOf(last.algo)
            priv == last.key.goPrKey
        IN  /\ priv.D = BigEndianMod(last.seed, c.N - 1) + 1
            /\ priv.D >= 1
            /\ priv.D <= c.N - 1
            /\ [x |-> priv.PublicKey.X, y |-> priv.PublicKey.Y]
                  = Multiple(c, priv.D)

\* a seed whose value is reduced: no byte of it is zero
C2_Witness ==
    /\ last.op = "generatePrivateKey"
    /\ last.err = Nil
    /\ \A i \in 1 .. Len(last.seed) : last.seed[i] # 0

\* ------------------------------------------------------------------------
\* C3
\* ------------------------------------------------------------------------
\* C3: decoding the raw encoding of a generated key with the same
\* algorithm succeeds and gives a key that Equals the generated one, with
\* the same public point.
C3_RoundTrip ==
    /\ last.op = "decodePrivateKey"
    /\ last.of.type = "PrKeyECDSA"
    /\ last.algo = AlgoOfKey(last.of)
    => /\ last.err = Nil
       /\ last.key.type = "PrKeyECDSA"
       /\ PrKeyEquals(last.key, last.of)
       /\ PrKeyEquals(last.of, last.key)
       /\ last.key.goPrKey.PublicKey.X = last.of.goPrKey.PublicKey.X
       /\ last.key.goPrKey.PublicKey.Y = last.of.goPrKey.PublicKey.Y

\* a round trip of a scalar that needs a zero byte in front
C3_Witness ==
    /\ last.op = "decodePrivateKey"
    /\ last.of.type = "PrKeyECDSA"
    /\ last.algo = AlgoOfKey(last.of)
    /\ last.of.goPrKey.D < 256
    /\ last.err = Nil

\* ------------------------------------------------------------------------
\* C4
\* ------------------------------------------------------------------------
\* C4: Verify under the signer's public key of the signature Sign
\* returned, with the same message and hasher, returns true and no error.
C4_SignVerify ==
    /\ last.op = "Verify"
    /\ signed.made
    /\ last.pk = PublicKey(sk)
    /\ last.sig = signed.sig
    /\ last.data = signed.data
    /\ last.alg = signed.alg
    => /\ ~last.out.panic
       /\ last.out.err = Nil
       /\ last.out.ok

\* a signature whose r needed a zero byte in front, verified
C4_Witness ==
    /\ last.op = "Verify"
    /\ signed.made
    /\ last.sig = signed.sig
    /\ last.data = signed.data
    /\ last.sig[1] = 0
    /\ last.out.ok

\* ------------------------------------------------------------------------
\* C5
\* ------------------------------------------------------------------------
\* C5: generatePrivateKey fails, returning no key, exactly when the seed
\* is shorter than Nlen + 16 bytes.
C5_SeedLength ==
    last.op = "generatePrivateKey" =>
        LET Nlen == ByteLength(CurveOf(last.algo).N) IN
        /\ (last.err # Nil) <=> (Len(last.seed) < Nlen + 16)
        /\ last.err # Nil => last.key = NoKey
        /\ last.err = Nil => last.key.type = "PrKeyECDSA"

\* a seed of exactly Nlen bytes, rejected
C5_Witness ==
    /\ last.op = "generatePrivateKey"
    /\ Len(last.seed) = ByteLength(CurveOf(last.algo).N)
    /\ last.err # Nil

\* ------------------------------------------------------------------------
\* C6
\* ------------------------------------------------------------------------
\* C6: decodePublicKey of 2 * Plen bytes that are no point of the curve,
\* or are the point at infinity, fails and returns no key; so does any
\* other length.
C6_PublicKeyChecked ==
    last.op = "decodePublicKey" =>
        LET c == CurveOf(last.algo)
            Plen == ByteLength(c.P)
            pt == [x |-> BigEndianValue(SubSeq(last.der, 1, Plen)),
                   y |-> BigEndianValue(SubSeq(last.der, Plen + 1,
                                               Len(last.der)))]
        IN  \/ Len(last.der) = 2 * Plen /\ IsOnCurve(c, pt)
               /\ pt # Infinity
            \/ last.err # Nil /\ last.key = NoKey

\* ------------------------------------------------------------------------
\* C7
\* ------------------------------------------------------------------------
\* C7: Verify with a hasher and a signature not of 2 * Nlen bytes fails
\* with an error: no crash and no verification result.
C7_SignatureLength ==
    /\ last.op = "Verify"
    /\ last.alg # Nil
    /\ Len(last.sig) # 2 * ByteLength(heap[last.pk.alg].curve.N)
    => /\ ~last.out.panic
       /\ last.out.err # Nil
       /\ ~last.out.ok

\* ------------------------------------------------------------------------
\* C8
\* ------------------------------------------------------------------------
\* C8: every private key that exists has a scalar d with 1 <= d < n.
C8_ScalarRange ==
    /\ sk.type = "PrKeyECDSA" =>
          /\ sk.goPrKey.D >= 1
          /\ sk.goPrKey.D < heap[sk.alg].curve.N
    /\ last.op \in {"generatePrivateKey", "decodePrivateKey"}
        /\ last.key.type = "PrKeyECDSA" =>
          /\ last.key.goPrKey.D >= 1
          /\ last.key.goPrKey.D < heap[last.key.alg].curve.N

\* ------------------------------------------------------------------------
\* C9
\* ------------------------------------------------------------------------
\* C9: decodePrivateKey succeeds only on exactly Nlen bytes; on any other
\* length it fails and returns no key.
C9_PrivateKeyLength ==
    last.op = "decodePrivateKey" =>
        LET Nlen == ByteLength(CurveOf(last.algo).N) IN
        /\ last.err = Nil => Len(last.der) = Nlen
        /\ Len(last.der) # Nlen => last.err # Nil /\ last.key = NoKey

\* a buffer of Nlen + 1 bytes, rejected
C9_Witness ==
    /\ last.op = "decodePrivateKey"
    /\ Len(last.der) = ByteLength(CurveOf(last.algo).N) + 1
    /\ last.err # Nil

\* ------------------------------------------------------------------------
\* C10
\* ------------------------------------------------------------------------
\* C10: Equals on private keys is true exactly for two keys of the same
\* curve with equal scalars, and on public keys exactly for two keys of the
\* same curve with equal x and y.
C10_EqualsCurveBound ==
    /\ last.op = "PrKeyEquals" =>
          (last.ok <=>
              /\ last.other.type = "PrKeyECDSA"
              /\ AlgoOfKey(last.k) = AlgoOfKey(last.other)
              /\ last.k.goPrKey.D = last.other.goPrKey.D)
    /\ last.op = "PubKeyEquals" =>
          (last.ok <=>
              /\ last.other.type = "PubKeyECDSA"
              /\ AlgoOfKey(last.k) = AlgoOfKey(last.other)
              /\ last.k.goPubKey.X = last.other.goPubKey.X
              /\ last.k.goPubKey.Y = last.other.goPubKey.Y)

\* two private keys of different curves with the same scalar, not equal
C10_Witness ==
    /\ last.op = "PrKeyEquals"
    /\ last.other.type = "PrKeyECDSA"
    /\ AlgoOfKey(last.k) # AlgoOfKey(last.other)
    /\ last.k.goPrKey.D = last.other.goPrKey.D
    /\ ~last.ok

\* ------------------------------------------------------------------------
\* C11
\* ------------------------------------------------------------------------
\* the two halves of a signature of 2 * Nlen bytes, as integers
C11_Halves(sig) ==
    [r |-> BigEndianValue(SubSeq(sig, 1, Len(sig) \div 2)),
     s |-> BigEndianValue(SubSeq(sig, Len(sig) \div 2 + 1, Len(sig)))]

\* C11: Verify with a hasher and a signature of exactly 2 * Nlen bytes in
\* which r or s is zero or at least n returns false and no error.
C11_OutOfRangeIsFalse ==
    last.op = "Verify" /\ last.alg # Nil =>
        LET n == CurveOf(AlgoOfKey(last.pk)).N
            rs == C11_Halves(last.sig)
        IN  /\ Len(last.sig) = 2 * ByteLength(n)
            /\ rs.r = 0 \/ rs.s = 0 \/ rs.r >= n \/ rs.s >= n
            => /\ ~last.out.panic
               /\ last.out.err = Nil
               /\ ~last.out.ok

\* the signature Sign returned with n added to s, under the signer's key,
\* message and hasher: s is out of range, and Verify returned false
C11_Witness ==
    /\ last.op = "Verify"
    /\ signed.made
    /\ last.data = signed.data
    /\ last.sig # signed.sig
    /\ Len(last.sig) = Len(signed.sig)
    /\ C11_Halves(last.sig).s >= CurveOf(AlgoOfKey(last.pk)).N
    /\ ~last.out.ok
    /\ last.out.err = Nil

====
